---- MODULE Spec2Model ----
(***************************************************************************)
(* A model of the Simple-BlockChain ledger: the Transaction and Block      *)
(* data model (src/models), the Blockchain aggregate and its operations    *)
(* (src/core/blockchain.rs), and the identity file that                    *)
(* Transaction::is_valid reads from disk.                                  *)
(*                                                                         *)
(* Strings of the program are TLA+ strings.  SHA-256 and ed25519 are       *)
(* idealised as collision-free / unforgeable: a digest or a signature is   *)
(* a string that wraps exactly the bytes it was computed from, so two      *)
(* digests are equal iff the hashed byte strings are equal.  The byte      *)
(* strings themselves are built as the code builds them (format! without   *)
(* separators, Display of numbers, hex::encode).                           *)
(*                                                                         *)
(* Amounts are f64 in the program; the model draws integer-valued amounts, *)
(* for which f64 arithmetic is exact.                                      *)
(***************************************************************************)
EXTENDS Integers, Sequences, FiniteSets, TLC

VARIABLES chain, pending_transactions, accounts, public_keys, validators,
          keypairs, accounts_json, other_json, blockchain_json, file_ops, cli,
          ret

vars == <<chain, pending_transactions, accounts, public_keys, validators,
          keypairs, accounts_json, other_json, blockchain_json, file_ops, cli,
          ret>>

(***************************************************************************)
(* Bounds of the model.                                                    *)
(***************************************************************************)
\* calls of add_transaction over a run; it bounds the pending pool (at most
\* MaxTx transactions) and the chain (at most MaxTx + 1 blocks) as well
MaxTx == 2

\* calls of save_to_file and load_from_file made on the ledger directly
MaxFileOps == 2

\* starts of the program (BlockchainCLI::new followed by run)
MaxStarts == 2

\* the genesis credit
SeedAmount == 1000

\* the key pairs Keypair::generate may return
Keys == {1, 2}

\* the readings of SystemTime::now, in seconds since the epoch
Times == {10}

\* the amounts a caller submits
Amounts == {300, SeedAmount}

(***************************************************************************)
(* Formatting: Display of integers, hex::encode.                           *)
(***************************************************************************)
DecDigits == <<"0", "1", "2", "3", "4", "5", "6", "7", "8", "9">>

HexDigits == <<"0", "1", "2", "3", "4", "5", "6", "7", "8", "9",
               "a", "b", "c", "d", "e", "f">>

RECURSIVE fmt_nat(_)
fmt_nat(n) ==
    IF n < 10 THEN DecDigits[n + 1]
    ELSE fmt_nat(n \div 10) \o DecDigits[(n % 10) + 1]

\* "{}" of a u32 / u64
fmt_uint(n) == fmt_nat(n)

\* "{}" of an integer-valued f64: no decimal point, a leading '-' if negative
fmt_f64(x) == IF x < 0 THEN "-" \o fmt_nat(-x) ELSE fmt_nat(x)

\* serde_json's rendering of an integer-valued f64: always with ".0"
json_f64(x) == fmt_f64(x) \o ".0"

RECURSIVE hex_encode(_)
hex_encode(bytes) ==
    IF bytes = <<>> THEN ""
    ELSE HexDigits[(Head(bytes) \div 16) + 1] \o HexDigits[(Head(bytes) % 16) + 1]
         \o hex_encode(Tail(bytes))

(***************************************************************************)
(* Key pairs.  A key pair is identified by k \in Keys; its public and      *)
(* secret halves are byte strings (one byte here instead of 32).           *)
(***************************************************************************)
public_bytes(k) == <<160 + k>>
secret_bytes(k) == <<k>>

\* the address of a key pair: hex::encode(keypair.public.as_bytes())
address_of(k) == hex_encode(public_bytes(k))

Addresses == {address_of(k) : k \in Keys}

Sentinel == "0"

\* the strings hex::decode accepts, up to the length of a key
HexStrings == {HexDigits[i] \o HexDigits[j] : i, j \in 1..16}
is_hex(s) == s \in HexStrings

\* hex::decode followed by PublicKey::from_bytes: Ok on the strings that
\* hex::encode of a public key can produce
is_public_hex(s) == \E k \in Keys : hex_encode(public_bytes(k)) = s
public_from_hex(s) == public_bytes(CHOOSE k \in Keys : hex_encode(public_bytes(k)) = s)

\* hex::encode(keypair.sign(msg).to_bytes()): ed25519 is deterministic
sign_hex(k, msg) == "sig(" \o hex_encode(secret_bytes(k)) \o "," \o msg \o ")"

\* hex::decode, Signature::from_bytes and PublicKey::verify together: the
\* string verifies iff it is the signature of msg under the key pair of pk
verify_hex(pk, msg, sig) ==
    \E k \in Keys : public_bytes(k) = pk /\ sig = sign_hex(k, msg)

\* format!("{:x}", Sha256(data))
sha256_hex(data) == "sha256(" \o data \o ")"

(***************************************************************************)
(* Transaction (src/models/transaction.rs)                                 *)
(***************************************************************************)
None == <<>>
Some(x) == <<x>>

\* Result::Ok(())
Ok == "Ok"

Transaction_new(sender, recipient, amount, now) ==
    [sender |-> sender, recipient |-> recipient, amount |-> amount,
     signature |-> None, timestamp |-> now]

tx_data(tx) ==
    tx.sender \o tx.recipient \o fmt_f64(tx.amount) \o fmt_uint(tx.timestamp)

tx_calculate_hash(tx) == sha256_hex(tx_data(tx))

GenesisSigningError == "Cannot sign genesis transaction"

\* the Result of Transaction::sign: Ok, or the error for the sentinel sender
tx_sign_error(tx) == IF tx.sender = Sentinel THEN GenesisSigningError ELSE Ok

\* a sign that computes the signature and does not store it
tx_sign_not_stored(tx, k) == tx

\* the transaction after a Transaction::sign that returned Ok
tx_sign(tx, k) ==
    [tx EXCEPT !.signature = Some(sign_hex(k, tx_calculate_hash(tx)))]

\* The identity file: absent, or a JSON object address -> "secret:public".
\* An entry is kept as the parts that split(':') yields.
NoFile == [exists |-> FALSE, data |-> <<>>]

\* is_valid without the early return for the sentinel sender
tx_is_valid_no_genesis_rule(tx, file) ==
    IF tx.signature = None THEN "false"
    ELSE IF ~file.exists THEN "panic"
    ELSE IF tx.sender \notin DOMAIN file.data THEN "false"
    ELSE LET parts == file.data[tx.sender] IN
         IF Len(parts) # 2 THEN "false"
         ELSE IF ~is_hex(parts[2]) THEN "panic"
         ELSE IF ~is_public_hex(parts[2]) THEN "false"
         ELSE IF verify_hex(public_from_hex(parts[2]), tx_calculate_hash(tx),
                            tx.signature[1])
              THEN "true" ELSE "false"

\* Transaction::is_valid: "true", "false", or "panic" (expect / unwrap)
tx_is_valid(tx, file) ==
    IF tx.sender = Sentinel THEN "true"
    ELSE IF tx.signature = None THEN "false"
    ELSE IF ~file.exists THEN "panic"
    ELSE IF tx.sender \notin DOMAIN file.data THEN "false"
    ELSE LET parts == file.data[tx.sender] IN
         IF Len(parts) # 2 THEN "false"
         ELSE IF ~is_hex(parts[2]) THEN "panic"
         ELSE IF ~is_public_hex(parts[2]) THEN "false"
         ELSE IF verify_hex(public_from_hex(parts[2]), tx_calculate_hash(tx),
                            tx.signature[1])
              THEN "true" ELSE "false"

(***************************************************************************)
(* Block (src/models/block.rs)                                             *)
(***************************************************************************)
tx_json(tx) ==
    "{\"sender\":\"" \o tx.sender \o "\",\"recipient\":\"" \o tx.recipient
    \o "\",\"amount\":" \o json_f64(tx.amount)
    \o ",\"signature\":"
    \o (IF tx.signature = None THEN "null" ELSE "\"" \o tx.signature[1] \o "\"")
    \o ",\"timestamp\":" \o fmt_uint(tx.timestamp) \o "}"

RECURSIVE txs_json_tail(_)
txs_json_tail(txs) ==
    IF txs = <<>> THEN ""
    ELSE "," \o tx_json(Head(txs)) \o txs_json_tail(Tail(txs))

\* serde_json::to_string(&self.transactions)
txs_json(txs) ==
    IF txs = <<>> THEN "[]"
    ELSE "[" \o tx_json(Head(txs)) \o txs_json_tail(Tail(txs)) \o "]"

block_calculate_hash(b) ==
    sha256_hex(fmt_uint(b.index) \o fmt_uint(b.timestamp)
               \o txs_json(b.transactions) \o b.previous_hash \o b.validator)

\* Block::new with the hash computed before the validator is stored
Block_new_hash_early(index, transactions, previous_hash, validator, now) ==
    LET b == [index |-> index, timestamp |-> now, transactions |-> transactions,
              previous_hash |-> previous_hash, hash |-> "", validator |-> ""]
    IN [b EXCEPT !.hash = block_calculate_hash(b), !.validator = validator]

Block_new(index, transactions, previous_hash, validator, now) ==
    LET b == [index |-> index, timestamp |-> now, transactions |-> transactions,
              previous_hash |-> previous_hash, hash |-> "", validator |-> validator]
    IN [b EXCEPT !.hash = block_calculate_hash(b)]

(***************************************************************************)
(* Blockchain (src/core/blockchain.rs)                                     *)
(***************************************************************************)
\* accounts.get(a).unwrap_or(&0.0)
get_account_balance(accts, a) == IF a \in DOMAIN accts THEN accts[a] ELSE 0

\* *accounts.entry(a).or_insert(0.0) += d
entry_add(accts, a, d) ==
    IF a \in DOMAIN accts THEN [accts EXCEPT ![a] = @ + d]
    ELSE (a :> d) @@ accts

\* apply_transaction without the test for the sentinel: every sender is debited
apply_transaction_debit_all(accts, tx) ==
    entry_add(entry_add(accts, tx.sender, -tx.amount), tx.recipient, tx.amount)

\* apply_transaction without the debit of the sender
apply_transaction_credit_only(accts, tx) ==
    entry_add(accts, tx.recipient, tx.amount)

\* one iteration of the loop of apply_transactions
apply_transaction(accts, tx) ==
    LET debited == IF tx.sender # Sentinel
                   THEN entry_add(accts, tx.sender, -tx.amount)
                   ELSE accts
    IN entry_add(debited, tx.recipient, tx.amount)

RECURSIVE apply_transactions(_, _)
apply_transactions(accts, txs) ==
    IF txs = <<>> THEN accts
    ELSE apply_transactions(apply_transaction(accts, Head(txs)), Tail(txs))

\* *validators.get(address).unwrap_or(&false)
is_validator(vals, address) == address \in DOMAIN vals /\ vals[address]

InsufficientBalance == "Insufficient balance for transaction"
NotAuthorized == "Only authorized validators can create blocks"
EmptyPool == "No pending transactions to include in block"
NotRegistered == "Address is not registered"

Ret(op, result) == [op |-> op, result |-> result]

\* the seed address the ledger is created with
GenesisAddresses == {address_of(1)}

\* BlockchainCLI where no process runs: whether the menu loop runs, the
\* selected account, the name of the identity file, the starts of the program
\* so far and the key pairs Keypair::generate has returned so far
NoCLI == [running |-> FALSE, current_user |-> None,
          account_file |-> "accounts.json", starts |-> 0, generated |-> {}]

\* Blockchain::new with a create_genesis_block that does not clear the pool
Init_pool_kept ==
    \E g \in GenesisAddresses, t \in Times :
        /\ chain = <<Block_new(0, <<Transaction_new(Sentinel, g, SeedAmount, t)>>,
                               "0", g, t)>>
        /\ pending_transactions = <<Transaction_new(Sentinel, g, SeedAmount, t)>>
        /\ accounts = (g :> SeedAmount)
        /\ public_keys = <<>>
        /\ validators = <<>>
        /\ keypairs = <<>>
        /\ accounts_json = NoFile
        /\ other_json = NoFile
        /\ blockchain_json = NoFile
        /\ file_ops = 0
        /\ cli = NoCLI
        /\ ret = Ret("new", Ok)

\* Blockchain::new(genesis_address), with the two clock readings it takes
Init ==
    \E g \in GenesisAddresses, t \in Times :
        /\ chain = <<Block_new(0, <<Transaction_new(Sentinel, g, SeedAmount, t)>>,
                               "0", g, t)>>
        /\ pending_transactions = <<>>
        /\ accounts = (g :> SeedAmount)
        /\ public_keys = <<>>
        /\ validators = <<>>
        /\ keypairs = <<>>
        /\ accounts_json = NoFile
        /\ other_json = NoFile
        /\ blockchain_json = NoFile
        /\ file_ops = 0
        /\ cli = NoCLI
        /\ ret = Ret("new", Ok)

\* the transactions over the run so far, the genesis transaction excluded
RECURSIVE committed_count(_)
committed_count(ch) ==
    IF ch = <<>> THEN 0 ELSE Len(Head(ch).transactions) + committed_count(Tail(ch))

admitted_count == committed_count(chain) - 1 + Len(pending_transactions)

\* the amounts the transactions of txs debit from address a
RECURSIVE pending_debits(_, _)
pending_debits(txs, a) ==
    IF txs = <<>> THEN 0
    ELSE (IF Head(txs).sender = a THEN Head(txs).amount ELSE 0)
         + pending_debits(Tail(txs), a)

\* the balance check against the balance that the debits already pending leave
insufficient_balance_reserving(accts, tx) ==
    get_account_balance(accts, tx.sender)
        - pending_debits(pending_transactions, tx.sender) < tx.amount

\* the balance check with <= in place of <
insufficient_balance_inclusive(accts, tx) ==
    get_account_balance(accts, tx.sender) <= tx.amount

\* the balance check of add_transaction
insufficient_balance(accts, tx) ==
    get_account_balance(accts, tx.sender) < tx.amount

\* the early returns of add_transaction with the call of sign moved out of the
\* test for the sentinel: every transaction that passes the balance check is
\* signed
add_transaction_error_sign_always(accts, tx) ==
    IF tx.sender # Sentinel /\ insufficient_balance(accts, tx)
    THEN InsufficientBalance
    ELSE tx_sign_error(tx)

\* the early returns of add_transaction: the balance check and the call of
\* sign are both inside the test for the sentinel
add_transaction_error(accts, tx) ==
    IF tx.sender # Sentinel
    THEN IF insufficient_balance(accts, tx) THEN InsufficientBalance
         ELSE tx_sign_error(tx)
    ELSE Ok

add_transaction(tx, k) ==
    /\ admitted_count < MaxTx
    /\ LET err == add_transaction_error(accounts, tx) IN
       IF err # Ok
       THEN /\ ret' = Ret("add_transaction", err)
            /\ UNCHANGED pending_transactions
       ELSE /\ pending_transactions' =
                  Append(pending_transactions,
                         IF tx.sender # Sentinel THEN tx_sign(tx, k) ELSE tx)
            /\ ret' = Ret("add_transaction", Ok)
    /\ UNCHANGED <<chain, accounts, public_keys, validators, keypairs,
                   accounts_json, other_json, blockchain_json, file_ops, cli>>

\* register_keypair with accounts.insert(address, 0.0) in place of
\* entry(address).or_insert(0.0)
register_keypair_reset_balance(k) ==
    LET address == address_of(k) IN
    /\ public_keys' = (address :> public_bytes(k)) @@ public_keys
    /\ keypairs' = (address :> k) @@ keypairs
    /\ accounts' = (address :> 0) @@ accounts
    /\ ret' = Ret("register_keypair", address)
    /\ UNCHANGED <<chain, pending_transactions, validators, accounts_json,
                   other_json, blockchain_json, file_ops, cli>>

register_keypair(k) ==
    LET address == address_of(k) IN
    /\ public_keys' = (address :> public_bytes(k)) @@ public_keys
    /\ keypairs' = (address :> k) @@ keypairs
    /\ accounts' = IF address \in DOMAIN accounts THEN accounts
                   ELSE (address :> 0) @@ accounts
    /\ ret' = Ret("register_keypair", address)
    /\ UNCHANGED <<chain, pending_transactions, validators, accounts_json,
                   other_json, blockchain_json, file_ops, cli>>

\* validators.insert(address, !flag): the flag of the address flipped
validators_toggle(vals, address) ==
    (address :> ~(address \in DOMAIN vals /\ vals[address])) @@ vals

\* validators.insert(address, true)
validators_insert(vals, address) == (address :> TRUE) @@ vals

\* the Err of add_validator, Ok if it inserts
add_validator_error(pks, address) ==
    IF address \notin DOMAIN pks THEN NotRegistered ELSE Ok

\* add_validator without the test of public_keys
add_validator_unchecked(address) ==
    /\ validators' = validators_insert(validators, address)
    /\ ret' = Ret("add_validator", Ok)
    /\ UNCHANGED <<chain, pending_transactions, accounts, public_keys, keypairs,
                   accounts_json, other_json, blockchain_json, file_ops, cli>>

add_validator(address) ==
    /\ IF add_validator_error(public_keys, address) # Ok
       THEN /\ ret' = Ret("add_validator", NotRegistered)
            /\ UNCHANGED validators
       ELSE /\ validators' = validators_insert(validators, address)
            /\ ret' = Ret("add_validator", Ok)
    /\ UNCHANGED <<chain, pending_transactions, accounts, public_keys, keypairs,
                   accounts_json, other_json, blockchain_json, file_ops, cli>>

\* the first block in place of the last
get_first_block(ch) == ch[1]

\* self.chain.last().expect(..)
get_latest_block(ch) == ch[Len(ch)]

\* the guards of create_block with the pool tested before the validator
create_block_error_pool_first(vals, pool, validator_address) ==
    IF pool = <<>> THEN EmptyPool
    ELSE IF ~is_validator(vals, validator_address) THEN NotAuthorized
    ELSE Ok

\* the guards of create_block without the test of the pool
create_block_error_no_pool_test(vals, pool, validator_address) ==
    IF ~is_validator(vals, validator_address) THEN NotAuthorized ELSE Ok

\* the guards of create_block, in the order the code tests them
create_block_error(vals, pool, validator_address) ==
    IF ~is_validator(vals, validator_address) THEN NotAuthorized
    ELSE IF pool = <<>> THEN EmptyPool
    ELSE Ok

\* create_block with the block inserted at the front of the chain
create_block_at_front(validator_address, now) ==
    /\ LET err == create_block_error(validators, pending_transactions,
                                     validator_address)
       IN IF err # Ok
          THEN /\ ret' = Ret("create_block", err)
               /\ UNCHANGED <<chain, accounts, pending_transactions>>
          ELSE /\ chain' = <<Block_new(Len(chain), pending_transactions,
                                       get_latest_block(chain).hash,
                                       validator_address, now)>> \o chain
               /\ accounts' = apply_transactions(accounts, pending_transactions)
               /\ pending_transactions' = <<>>
               /\ ret' = Ret("create_block", Ok)
    /\ UNCHANGED <<public_keys, validators, keypairs, accounts_json, other_json,
                   blockchain_json, file_ops, cli>>

create_block(validator_address, now) ==
    /\ LET err == create_block_error(validators, pending_transactions,
                                     validator_address)
       IN IF err # Ok
          THEN /\ ret' = Ret("create_block", err)
               /\ UNCHANGED <<chain, accounts, pending_transactions>>
          ELSE /\ chain' = Append(chain,
                                  Block_new(Len(chain), pending_transactions,
                                            get_latest_block(chain).hash,
                                            validator_address, now))
               /\ accounts' = apply_transactions(accounts, pending_transactions)
               /\ pending_transactions' = <<>>
               /\ ret' = Ret("create_block", Ok)
    /\ UNCHANGED <<public_keys, validators, keypairs, accounts_json, other_json,
                   blockchain_json, file_ops, cli>>

\* the loop over a block's transactions in validate_chain: the first
\* transaction that is not valid ends the walk
RECURSIVE txs_valid(_, _)
txs_valid(txs, file) ==
    IF txs = <<>> THEN "true"
    ELSE LET r == tx_is_valid(Head(txs), file) IN
         IF r # "true" THEN r ELSE txs_valid(Tail(txs), file)

\* the walk of validate_chain without the comparison of previous_hash with the
\* hash of the block before
RECURSIVE validate_from_no_link(_, _, _, _)
validate_from_no_link(i, ch, vals, file) ==
    IF i > Len(ch) THEN "true"
    ELSE LET current_block == ch[i] IN
         IF current_block.hash # block_calculate_hash(current_block) THEN "false"
         ELSE LET r == txs_valid(current_block.transactions, file) IN
              IF r # "true" THEN r
              ELSE IF ~is_validator(vals, current_block.validator) THEN "false"
              ELSE validate_from_no_link(i + 1, ch, vals, file)

\* the walk of validate_chain without the test of the block's validator
RECURSIVE validate_from_no_validator(_, _, _, _)
validate_from_no_validator(i, ch, vals, file) ==
    IF i > Len(ch) THEN "true"
    ELSE LET current_block == ch[i]
             previous_block == ch[i - 1]
         IN IF current_block.hash # block_calculate_hash(current_block) THEN "false"
            ELSE IF current_block.previous_hash # previous_block.hash THEN "false"
            ELSE LET r == txs_valid(current_block.transactions, file) IN
                 IF r # "true" THEN r
                 ELSE validate_from_no_validator(i + 1, ch, vals, file)

\* the body of the loop of validate_chain for the block at (1-based) position
\* i >= 2, and the rest of the walk
RECURSIVE validate_from(_, _, _, _)
validate_from(i, ch, vals, file) ==
    IF i > Len(ch) THEN "true"
    ELSE LET current_block == ch[i]
             previous_block == ch[i - 1]
         IN IF current_block.hash # block_calculate_hash(current_block) THEN "false"
            ELSE IF current_block.previous_hash # previous_block.hash THEN "false"
            ELSE LET r == txs_valid(current_block.transactions, file) IN
                 IF r # "true" THEN r
                 ELSE IF ~is_validator(vals, current_block.validator) THEN "false"
                 ELSE validate_from(i + 1, ch, vals, file)

\* Blockchain::validate_chain: "true", "false", or "panic"
validate_chain(ch, vals, file) ==
    IF ch = <<>> THEN "true" ELSE validate_from(2, ch, vals, file)

validate_chain_call ==
    /\ ret' = Ret("validate_chain", validate_chain(chain, validators, accounts_json))
    /\ UNCHANGED <<chain, pending_transactions, accounts, public_keys, validators,
                   keypairs, accounts_json, other_json, blockchain_json, file_ops, cli>>

\* the identity file save_to_file writes: address -> "secret_hex:public_hex"
accounts_file_of(kps) ==
    [exists |-> TRUE,
     data |-> [a \in DOMAIN kps |->
                  <<hex_encode(secret_bytes(kps[a])), hex_encode(public_bytes(kps[a]))>>]]

AccountFiles == {"accounts.json", "other.json"}

\* the ledger file save_to_file writes: the fields of Blockchain that are not
\* marked #[serde(skip)]
blockchain_file_of(ch, pool, accts, vals) ==
    [exists |-> TRUE,
     data |-> [chain |-> ch, pending_transactions |-> pool, accounts |-> accts,
               validators |-> vals]]

\* save_to_file(filename, accounts_file): the ledger file, then the identity
\* file under the name it is given.  The model keeps one ledger file and the
\* identity files of two names, accounts.json being the one is_valid reads.
save_to_file(accounts_file) ==
    /\ file_ops < MaxFileOps
    /\ file_ops' = file_ops + 1
    /\ blockchain_json' = blockchain_file_of(chain, pending_transactions, accounts,
                                             validators)
    /\ accounts_json' = IF accounts_file = "accounts.json"
                        THEN accounts_file_of(keypairs)
                        ELSE accounts_json
    /\ other_json' = IF accounts_file = "other.json"
                     THEN accounts_file_of(keypairs)
                     ELSE other_json
    /\ ret' = Ret("save_to_file", Ok)
    /\ UNCHANGED <<chain, pending_transactions, accounts, public_keys, validators,
                   keypairs, cli>>

FailedReadBlockchain == "Failed to read blockchain file"
FailedReadAccounts == "Failed to read accounts file"
InvalidKeypairFormat == "Invalid keypair format for address"
InvalidPublicKeyHex == "Invalid public key hex for address"

\* hex::decode followed by SecretKey::from_bytes, on the strings hex::encode of
\* a secret key can produce
is_secret_hex(s) == \E k \in Keys : hex_encode(secret_bytes(k)) = s

\* Keypair { public, secret } of a "secret:public" entry that decodes: the key
\* pair that has this public half
keypair_from_hex(parts) ==
    CHOOSE k \in Keys : hex_encode(public_bytes(k)) = parts[2]

\* the first error of the loop of load_from_file over the entries of the
\* identity file, Ok if every entry decodes
load_entries_error(file) ==
    IF \E a \in DOMAIN file.data : Len(file.data[a]) # 2 THEN InvalidKeypairFormat
    ELSE IF \E a \in DOMAIN file.data :
                ~is_secret_hex(file.data[a][1]) \/ ~is_public_hex(file.data[a][2])
         THEN InvalidPublicKeyHex
    ELSE Ok

\* the Err of load_from_file, Ok if it returns a Blockchain
load_error(ledger_file, identity_file) ==
    IF ~ledger_file.exists THEN FailedReadBlockchain
    ELSE IF ~identity_file.exists THEN FailedReadAccounts
    ELSE load_entries_error(identity_file)

\* public_keys of the Blockchain load_from_file returns: the field is marked
\* #[serde(skip)], so it is the Default (empty) table, and the loop over the
\* identity file inserts into keypairs only
loaded_public_keys(identity_file) == <<>>

\* keypairs of the Blockchain load_from_file returns
loaded_keypairs(identity_file) ==
    [a \in DOMAIN identity_file.data |-> keypair_from_hex(identity_file.data[a])]

\* the identity file of a given name
identity_file_named(accounts_file) ==
    IF accounts_file = "accounts.json" THEN accounts_json ELSE other_json

\* Blockchain::load_from_file(blockchain_file, accounts_file): the Blockchain
\* it returns replaces the ledger; on Err the caller has no new ledger
load_from_file(accounts_file) ==
    LET identity_file == identity_file_named(accounts_file)
        err == load_error(blockchain_json, identity_file)
    IN /\ file_ops < MaxFileOps
       /\ IF err # Ok
          THEN /\ ret' = Ret("load_from_file", err)
               /\ UNCHANGED <<chain, pending_transactions, accounts, public_keys,
                              validators, keypairs>>
          ELSE /\ chain' = blockchain_json.data.chain
               /\ pending_transactions' = blockchain_json.data.pending_transactions
               /\ accounts' = blockchain_json.data.accounts
               /\ validators' = blockchain_json.data.validators
               /\ public_keys' = loaded_public_keys(identity_file)
               /\ keypairs' = loaded_keypairs(identity_file)
               /\ ret' = Ret("load_from_file", Ok)
       /\ file_ops' = file_ops + 1
       /\ UNCHANGED <<accounts_json, other_json, blockchain_json, cli>>

Senders == Addresses \cup {Sentinel}

\* the operations that change the ledger: admit, register, promote, commit
NextLedger ==
    \/ \E s \in Senders, r \in Addresses, a \in Amounts, t \in Times, k \in Keys :
           add_transaction(Transaction_new(s, r, a, t), k)
    \/ \E k \in Keys : register_keypair(k)
    \/ \E a \in Addresses : add_validator(a)
    \/ \E v \in Addresses, t \in Times : create_block(v, t)

\* the ledger on its own: nothing writes the identity file
SpecLedger == Init /\ [][NextLedger]_vars

\* amounts below zero, which a caller of add_transaction may submit as well
NegativeAmounts == {-300}

\* the ledger with callers that submit any amount
NextAnyAmount ==
    \/ NextLedger
    \/ \E s \in Senders, r \in Addresses, a \in NegativeAmounts, t \in Times,
          k \in Keys :
           add_transaction(Transaction_new(s, r, a, t), k)

SpecAnyAmount == Init /\ [][NextAnyAmount]_vars

\* the name main gives the identity file when the command line names none
DefaultAccountFile == "accounts.json"

\* the ledger with persistence, as a run of the program without arguments
\* saves and loads it: the identity file is accounts.json
NextPersist ==
    \/ NextLedger
    \/ save_to_file(DefaultAccountFile)
    \/ load_from_file(DefaultAccountFile)

SpecPersist == Init /\ [][NextPersist]_vars

\* the ledger with validation and persistence
Next ==
    \/ NextLedger
    \/ validate_chain_call
    \/ \E f \in AccountFiles : save_to_file(f)
    \/ \E f \in AccountFiles : load_from_file(f)

Spec == Init /\ [][Next]_vars


(***************************************************************************)
(* BlockchainCLI: the program as main starts it and the menu drives it     *)
(***************************************************************************)
NoAccountSelected == "No account selected"
AccountNotFound == "Account not found"
RecipientNotFound == "Recipient not found"
KeypairNotFound == "Keypair not found for sender"
NotAValidator == "Current account is not a validator"
OnlyValidatorsPromote == "Only validators can promote accounts"
CreatingNew == "Creating new blockchain"

\* the errors load_from_file can return
LoadErrors == {FailedReadBlockchain, FailedReadAccounts, InvalidKeypairFormat,
               InvalidPublicKeyHex}

\* before the program has been started: no ledger in memory, no file on disk
InitCLI ==
    /\ chain = <<>>
    /\ pending_transactions = <<>>
    /\ accounts = <<>>
    /\ public_keys = <<>>
    /\ validators = <<>>
    /\ keypairs = <<>>
    /\ accounts_json = NoFile
    /\ other_json = NoFile
    /\ blockchain_json = NoFile
    /\ file_ops = 0
    /\ cli = NoCLI
    /\ ret = Ret("main", Ok)

\* self.blockchain.save_to_file(&self.blockchain_file, &self.account_file), on
\* the ledger as the handler that calls it leaves it
save_blockchain ==
    /\ blockchain_json' = blockchain_file_of(chain', pending_transactions',
                                             accounts', validators')
    /\ accounts_json' = IF cli.account_file = "accounts.json"
                        THEN accounts_file_of(keypairs')
                        ELSE accounts_json
    /\ other_json' = IF cli.account_file = "other.json"
                     THEN accounts_file_of(keypairs')
                     ELSE other_json

\* main: BlockchainCLI::new(blockchain_file, accounts_file) and the entry into
\* run.  A ledger file that exists is loaded; when the load returns Err, and
\* when there is no ledger file, a new chain is made for an admin key pair
\* that Keypair::generate returns, and the loop runs on it.
cli_new(accounts_file, k, t) ==
    /\ ~cli.running
    /\ cli.starts < MaxStarts
    /\ LET identity_file == identity_file_named(accounts_file)
           err == load_error(blockchain_json, identity_file)
           admin_address == address_of(k)
       IN IF blockchain_json.exists /\ err = Ok
          THEN /\ chain' = blockchain_json.data.chain
               /\ pending_transactions' = blockchain_json.data.pending_transactions
               /\ accounts' = blockchain_json.data.accounts
               /\ validators' = blockchain_json.data.validators
               /\ public_keys' = loaded_public_keys(identity_file)
               /\ keypairs' = loaded_keypairs(identity_file)
               /\ cli' = [cli EXCEPT !.running = TRUE, !.current_user = None,
                                     !.account_file = accounts_file,
                                     !.starts = @ + 1]
               /\ ret' = Ret("BlockchainCLI::new", Ok)
          ELSE /\ k \notin cli.generated
               /\ chain' = <<Block_new(0, <<Transaction_new(Sentinel, admin_address,
                                                            SeedAmount, t)>>,
                                       "0", admin_address, t)>>
               /\ pending_transactions' = <<>>
               /\ accounts' = (admin_address :> SeedAmount)
               /\ public_keys' = (admin_address :> public_bytes(k))
               /\ keypairs' = (admin_address :> k)
               /\ validators' = (admin_address :> TRUE)
               /\ cli' = [cli EXCEPT !.running = TRUE, !.current_user = None,
                                     !.account_file = accounts_file,
                                     !.starts = @ + 1,
                                     !.generated = @ \cup {k}]
               /\ ret' = Ret("BlockchainCLI::new",
                             IF blockchain_json.exists THEN err ELSE CreatingNew)
    /\ UNCHANGED <<accounts_json, other_json, blockchain_json, file_ops>>

\* menu "1": create_new_account, the new account selected, save_blockchain
cli_create_new_account(k) ==
    LET address == address_of(k) IN
    /\ cli.running
    /\ k \notin cli.generated
    /\ public_keys' = (address :> public_bytes(k)) @@ public_keys
    /\ keypairs' = (address :> k) @@ keypairs
    /\ accounts' = IF address \in DOMAIN accounts THEN accounts
                   ELSE (address :> 0) @@ accounts
    /\ cli' = [cli EXCEPT !.current_user = Some(address),
                          !.generated = @ \cup {k}]
    /\ UNCHANGED <<chain, pending_transactions, validators, file_ops>>
    /\ save_blockchain
    /\ ret' = Ret("create_new_account", address)

\* menu "2": select_account of an address the menu lists or of any other
select_account(address) ==
    /\ cli.running
    /\ IF address \notin DOMAIN keypairs
       THEN /\ ret' = Ret("select_account", AccountNotFound)
            /\ UNCHANGED cli
       ELSE /\ cli' = [cli EXCEPT !.current_user = Some(address)]
            /\ ret' = Ret("select_account", Ok)
    /\ UNCHANGED <<chain, pending_transactions, accounts, public_keys, validators,
                   keypairs, accounts_json, other_json, blockchain_json, file_ops>>

\* the Err of create_transaction, Ok if the transaction is admitted
create_transaction_error(recipient, amount, t) ==
    IF cli.current_user = None THEN NoAccountSelected
    ELSE IF recipient \notin DOMAIN accounts THEN RecipientNotFound
    ELSE IF cli.current_user[1] \notin DOMAIN keypairs THEN KeypairNotFound
    ELSE add_transaction_error(accounts,
             Transaction_new(cli.current_user[1], recipient, amount, t))

\* menu "5": a recipient of list_accounts and an amount above zero, then
\* create_transaction, and save_blockchain when it returns Ok
cli_create_transaction(recipient, amount, t) ==
    /\ cli.running
    /\ recipient \in DOMAIN keypairs
    /\ amount > 0
    /\ admitted_count < MaxTx
    /\ LET err == create_transaction_error(recipient, amount, t) IN
       IF err # Ok
       THEN /\ ret' = Ret("create_transaction", err)
            /\ UNCHANGED <<pending_transactions, accounts_json, other_json,
                           blockchain_json>>
            /\ UNCHANGED <<chain, accounts, public_keys, validators, keypairs,
                           file_ops, cli>>
       ELSE LET sender == cli.current_user[1]
                tx == Transaction_new(sender, recipient, amount, t)
            IN /\ pending_transactions' =
                     Append(pending_transactions,
                            IF tx.sender # Sentinel
                            THEN tx_sign(tx, keypairs[sender]) ELSE tx)
               /\ UNCHANGED <<chain, accounts, public_keys, validators, keypairs,
                              file_ops, cli>>
               /\ save_blockchain
               /\ ret' = Ret("create_transaction", Ok)

\* the Err of create_new_block, Ok if the block is made
create_new_block_error ==
    IF cli.current_user = None THEN NoAccountSelected
    ELSE IF ~is_validator(validators, cli.current_user[1]) THEN NotAValidator
    ELSE create_block_error(validators, pending_transactions, cli.current_user[1])

\* menu "7": create_new_block, which saves after create_block
cli_create_new_block(now) ==
    /\ cli.running
    /\ LET err == create_new_block_error IN
       IF err # Ok
       THEN /\ ret' = Ret("create_new_block", err)
            /\ UNCHANGED <<chain, accounts, pending_transactions, accounts_json,
                           other_json, blockchain_json>>
            /\ UNCHANGED <<public_keys, validators, keypairs, file_ops, cli>>
       ELSE /\ chain' = Append(chain,
                               Block_new(Len(chain), pending_transactions,
                                         get_latest_block(chain).hash,
                                         cli.current_user[1], now))
            /\ accounts' = apply_transactions(accounts, pending_transactions)
            /\ pending_transactions' = <<>>
            /\ UNCHANGED <<public_keys, validators, keypairs, file_ops, cli>>
            /\ save_blockchain
            /\ ret' = Ret("create_new_block", Ok)

\* the Err of promote_to_validator without the test of the current user's flag
promote_to_validator_error_any_caller(address) ==
    IF cli.current_user = None THEN NoAccountSelected
    ELSE add_validator_error(public_keys, address)

\* the Err of promote_to_validator, Ok if the address is promoted
promote_to_validator_error(address) ==
    IF cli.current_user = None THEN NoAccountSelected
    ELSE IF ~is_validator(validators, cli.current_user[1])
         THEN OnlyValidatorsPromote
    ELSE add_validator_error(public_keys, address)

\* menu "8": promote_to_validator of an address of list_accounts, which saves
\* after add_validator
promote_to_validator(address) ==
    /\ cli.running
    /\ address \in DOMAIN keypairs
    /\ LET err == promote_to_validator_error(address) IN
       IF err # Ok
       THEN /\ ret' = Ret("promote_to_validator", err)
            /\ UNCHANGED <<validators, accounts_json, other_json, blockchain_json>>
            /\ UNCHANGED <<chain, pending_transactions, accounts, public_keys,
                           keypairs, file_ops, cli>>
       ELSE /\ validators' = validators_insert(validators, address)
            /\ UNCHANGED <<chain, pending_transactions, accounts, public_keys,
                           keypairs, file_ops, cli>>
            /\ save_blockchain
            /\ ret' = Ret("promote_to_validator", Ok)

\* menu "9": print_blockchain_status, which calls validate_chain; a panic in
\* it ends the process without a save
print_blockchain_status ==
    /\ cli.running
    /\ LET is_valid == validate_chain(chain, validators, accounts_json) IN
       /\ ret' = Ret("print_blockchain_status", is_valid)
       /\ cli' = IF is_valid = "panic"
                 THEN [cli EXCEPT !.running = FALSE, !.current_user = None]
                 ELSE cli
    /\ UNCHANGED <<chain, pending_transactions, accounts, public_keys, validators,
                   keypairs, accounts_json, other_json, blockchain_json, file_ops>>

\* menu "0": save_blockchain, then the loop and the process end
cli_exit ==
    /\ cli.running
    /\ cli' = [cli EXCEPT !.running = FALSE, !.current_user = None]
    /\ UNCHANGED <<chain, pending_transactions, accounts, public_keys, validators,
                   keypairs, file_ops>>
    /\ save_blockchain
    /\ ret' = Ret("exit", Ok)

\* the program: started, driven through the menu, ended and started again
NextCLI ==
    \/ \E f \in AccountFiles, k \in Keys, t \in Times : cli_new(f, k, t)
    \/ \E k \in Keys : cli_create_new_account(k)
    \/ \E a \in Addresses : select_account(a)
    \/ \E r \in Addresses, a \in Amounts, t \in Times :
           cli_create_transaction(r, a, t)
    \/ \E t \in Times : cli_create_new_block(t)
    \/ \E a \in Addresses : promote_to_validator(a)
    \/ print_blockchain_status
    \/ cli_exit

SpecCLI == InitCLI /\ [][NextCLI]_vars

(***************************************************************************)
(* Properties                                                              *)
(***************************************************************************)
TxInputs ==
    {Transaction_new(s, r, a, t) : s \in Senders, r \in Addresses, a \in Amounts,
                                   t \in Times}

RECURSIVE sum_where(_, _, _)
\* the sum of the amounts of the transactions of txs that have field f = a
sum_where(txs, f, a) ==
    IF txs = <<>> THEN 0
    ELSE (IF Head(txs)[f] = a THEN Head(txs).amount ELSE 0) + sum_where(Tail(txs), f, a)

seq_range(s) == {s[i] : i \in 1..Len(s)}

\* C1: a successful create_block leaves, for every address, the balance it had
\* before (0 if it had none) plus the amounts of the pool's transactions that
\* name it as recipient minus the amounts of those that name it as sender; the
\* table holds exactly the old addresses, the recipients and the senders other
\* than the sentinel "0", which is never debited.
C1_CommitAppliesPool ==
    [][(ret'.op = "create_block" /\ ret'.result = Ok) =>
         LET pool == pending_transactions IN
         /\ DOMAIN accounts' =
                DOMAIN accounts
                \cup {tx.recipient : tx \in seq_range(pool)}
                \cup ({tx.sender : tx \in seq_range(pool)} \ {Sentinel})
         /\ \A a \in DOMAIN accounts' :
                accounts'[a] = get_account_balance(accounts, a)
                               + sum_where(pool, "recipient", a)
                               - sum_where(pool, "sender", a)]_vars

\* the example of C1: genesis credit 1000 to A, then one block with the single
\* transaction A -> B of 300, leaves A = 700 and B = 300
C1_Witness ==
    /\ ret = Ret("create_block", Ok)
    /\ Len(chain) = 2
    /\ Len(chain[2].transactions) = 1
    /\ LET g == chain[1].transactions[1]
           tx == chain[2].transactions[1]
       IN /\ g.sender = Sentinel /\ g.amount = 1000
          /\ tx.sender = g.recipient /\ tx.recipient # tx.sender /\ tx.amount = 300
          /\ accounts[tx.sender] = 700
          /\ accounts[tx.recipient] = 300

\* C2: add_transaction of a transaction whose sender is not the sentinel and
\* whose amount exceeds the sender's balance (0 if absent) returns the
\* insufficient-balance error and changes neither pool, chain nor accounts; with
\* amount equal to the balance the transaction is appended to the pool.
C2_OverdraftRejected ==
    [][ret'.op = "add_transaction" =>
       \A tx \in TxInputs, k \in Keys :
         (add_transaction(tx, k) /\ tx.sender # Sentinel) =>
             /\ tx.amount > get_account_balance(accounts, tx.sender) =>
                    /\ ret' = Ret("add_transaction", InsufficientBalance)
                    /\ UNCHANGED <<pending_transactions, chain, accounts>>
             /\ tx.amount = get_account_balance(accounts, tx.sender) =>
                    /\ ret' = Ret("add_transaction", Ok)
                    /\ Len(pending_transactions') = Len(pending_transactions) + 1
                    /\ LET q == pending_transactions'[Len(pending_transactions')]
                       IN /\ q.sender = tx.sender /\ q.recipient = tx.recipient
                          /\ q.amount = tx.amount /\ q.timestamp = tx.timestamp]_vars

\* an overdraft has just been rejected while a transaction for the sender's whole
\* balance sits in the pool
C2_Witness ==
    /\ ret = Ret("add_transaction", InsufficientBalance)
    /\ \E i \in 1..Len(pending_transactions) :
          /\ pending_transactions[i].sender # Sentinel
          /\ pending_transactions[i].amount =
                 get_account_balance(accounts, pending_transactions[i].sender)

\* C3: create_block by an address that is not in validators with value true
\* returns the not-authorized error, whether the pool is empty or not, and
\* changes neither chain, pool nor accounts.
C3_NotAuthorized ==
    [][ret'.op = "create_block" =>
       \A v \in Addresses, t \in Times :
         (create_block(v, t) /\ ~(v \in DOMAIN validators /\ validators[v] = TRUE)) =>
             /\ ret' = Ret("create_block", NotAuthorized)
             /\ UNCHANGED <<chain, pending_transactions, accounts>>]_vars

C3_Witness ==
    /\ ret = Ret("create_block", NotAuthorized)
    /\ pending_transactions # <<>>

\* C4: create_block by a validator while the pool is empty returns the
\* empty-pool error and changes neither chain nor accounts; and whenever the
\* chain changes, the block that was appended holds at least one transaction.
C4_EmptyPool ==
    [][/\ ret'.op = "create_block" =>
          \A v \in Addresses, t \in Times :
            (create_block(v, t) /\ v \in DOMAIN validators /\ validators[v] = TRUE
               /\ pending_transactions = <<>>) =>
                /\ ret' = Ret("create_block", EmptyPool)
                /\ UNCHANGED <<chain, accounts>>
       /\ chain' # chain => chain'[Len(chain')].transactions # <<>>]_vars

C4_Witness ==
    /\ ret = Ret("create_block", EmptyPool)
    /\ pending_transactions = <<>>
    /\ \E v \in DOMAIN validators : validators[v]

\* C5: a successful create_block appends exactly one block; its index is the
\* chain length before the call, its transactions are the pool in pool order,
\* its previous_hash is the stored hash of the block that was last, its
\* validator is the committing address; the pool is empty afterwards.
C5_CommitAppendsBlock ==
    [][(ret'.op = "create_block" /\ ret'.result = Ok) =>
       \A v \in Addresses, t \in Times :
         create_block(v, t) =>
             /\ Len(chain') = Len(chain) + 1
             /\ SubSeq(chain', 1, Len(chain)) = chain
             /\ LET b == chain'[Len(chain')] IN
                /\ b.index = Len(chain)
                /\ b.transactions = pending_transactions
                /\ b.previous_hash = chain[Len(chain)].hash
                /\ b.validator = v
             /\ pending_transactions' = <<>>]_vars

\* a third block has just been appended
C5_Witness ==
    /\ ret = Ret("create_block", Ok)
    /\ Len(chain) = 3
    /\ chain[3].previous_hash = chain[2].hash
    /\ chain[2].hash # chain[1].hash
    /\ pending_transactions = <<>>

\* what validate_chain returns in the current state
chain_valid == validate_chain(chain, validators, accounts_json)

\* C6: after genesis initialization and any sequence of register_keypair,
\* add_validator, add_transaction and create_block, validate_chain returns
\* true.
C6_UntouchedChainValidates == chain_valid = "true"

\* the values a stored hash or previous_hash is overwritten with: a string that
\* is no digest, and a digest the chain itself holds
CorruptHashes(ch) == {"00", ch[1].hash}

with_hash(ch, i, h) == [ch EXCEPT ![i].hash = h]
with_previous_hash(ch, i, h) == [ch EXCEPT ![i].previous_hash = h]

\* C7 as stated: for every block of every chain, block 0 and one-block chains
\* included, overwriting its stored hash or its previous_hash with a different
\* value makes validate_chain return false.
C7_AnyCorruptionDetected ==
    \A i \in 1..Len(chain), h \in CorruptHashes(chain) :
        /\ h # chain[i].hash =>
               validate_chain(with_hash(chain, i, h), validators, accounts_json)
                   = "false"
        /\ h # chain[i].previous_hash =>
               validate_chain(with_previous_hash(chain, i, h), validators,
                              accounts_json) = "false"

\* the statement of C7 as amended, of a chain ch validated against vals and file
corruption_detected(ch, vals, file) ==
    LET untouched == validate_chain(ch, vals, file) IN
    \A i \in 1..Len(ch), h \in CorruptHashes(ch) :
        LET rh == validate_chain(with_hash(ch, i, h), vals, file)
            rp == validate_chain(with_previous_hash(ch, i, h), vals, file)
        IN /\ (Len(ch) >= 2 /\ h # ch[i].hash) =>
                  /\ rh # "true"
                  /\ untouched = "true" => rh = "false"
           /\ (i >= 2 /\ h # ch[i].previous_hash) =>
                  /\ rp # "true"
                  /\ untouched = "true" => rp = "false"
           /\ i = 1 => rp = untouched
           /\ Len(ch) = 1 => (rh = "true" /\ rp = "true")

\* what validate_chain reads
validated == <<chain, validators, accounts_json>>

\* C7 as amended: in a chain of at least two blocks, overwriting the stored hash
\* of any block (block 0 included), or the previous_hash of any block at
\* position >= 1, with a different value keeps validate_chain from returning
\* true, and makes it return false when the untouched chain validated.
\* Overwriting the previous_hash of block 0 changes nothing in what
\* validate_chain returns, and a one-block chain validates whatever its block
\* holds.  Stated of the initial state and of every step that changes what
\* validate_chain reads, hence of every reachable state.
C7_CorruptionDetected ==
    /\ corruption_detected(chain, validators, accounts_json)
    /\ [][validated' # validated =>
             corruption_detected(chain', validators', accounts_json')]_vars

\* a chain of three blocks that validates, and stops validating when the hash
\* of block 0 or the previous_hash of block 2 is overwritten
C7_Witness ==
    /\ Len(chain) = 3
    /\ chain_valid = "true"
    /\ validate_chain(with_hash(chain, 1, "00"), validators, accounts_json) = "false"
    /\ validate_chain(with_previous_hash(chain, 3, "00"), validators, accounts_json)
           = "false"

\* the validator flag of a set to false, and a removed from the table
revoke_flag(vals, a) == (a :> FALSE) @@ vals
revoke_entry(vals, a) == [x \in DOMAIN vals \ {a} |-> vals[x]]

\* C8 as stated: revoking a validator that produced a committed block (block 0
\* included) makes the next validate_chain return false.
C8_AnyRevocationInvalidates ==
    \A i \in 1..Len(chain) :
        is_validator(validators, chain[i].validator) =>
        /\ validate_chain(chain, revoke_flag(validators, chain[i].validator),
                          accounts_json) = "false"
        /\ validate_chain(chain, revoke_entry(validators, chain[i].validator),
                          accounts_json) = "false"

\* the statement of C8 as amended, of a chain ch validated against vals and file
revocation_retroactive(ch, vals, file) ==
    LET before == validate_chain(ch, vals, file) IN
    \A a \in Addresses :
        LET rf == validate_chain(ch, revoke_flag(vals, a), file)
            re == validate_chain(ch, revoke_entry(vals, a), file)
        IN IF \E i \in 2..Len(ch) : ch[i].validator = a
           THEN /\ rf # "true" /\ re # "true"
                /\ before = "true" => (rf = "false" /\ re = "false")
           ELSE rf = before /\ re = before

\* C8 as amended: revoking (flag set to false, or entry removed) an address
\* that produced a block at position >= 1 keeps the next validate_chain from
\* returning true, and makes it return false when the chain validated before,
\* the blocks being untouched; revoking an address that produced no block at a
\* position >= 1 (the address of block 0, say) changes nothing in what
\* validate_chain returns.  The check reads the validators of validation time.
\* Stated of the initial state and of every step that changes what
\* validate_chain reads, hence of every reachable state.
C8_RevocationRetroactive ==
    /\ revocation_retroactive(chain, validators, accounts_json)
    /\ [][validated' # validated =>
             revocation_retroactive(chain', validators', accounts_json')]_vars

\* a chain that validates, with a block 1 whose producer is a validator and is
\* not the address of block 0: revoking that producer invalidates the chain
C8_Witness ==
    /\ Len(chain) >= 2
    /\ chain_valid = "true"
    /\ chain[2].validator # chain[1].validator
    /\ validate_chain(chain, revoke_flag(validators, chain[2].validator),
                      accounts_json) = "false"
    /\ validate_chain(chain, revoke_entry(validators, chain[2].validator),
                      accounts_json) = "false"

\* the transactions the ledger holds: pending and committed
ledger_txs ==
    seq_range(pending_transactions)
    \cup UNION {seq_range(chain[i].transactions) : i \in 1..Len(chain)}

\* the amounts and timestamps a signed transaction's fields are overwritten with
MutAmounts == Amounts \cup {3001}
MutTimes == Times \cup {0}

\* C9: for a signed transaction of the ledger whose sender is not the sentinel
\* and that verifies, every overwriting of sender, recipient, amount and
\* timestamp that yields a different quadruple (the sender staying an address)
\* makes is_valid return false.
C9_MutationInvalidates ==
    \A tx \in ledger_txs :
        (tx.sender # Sentinel /\ tx_is_valid(tx, accounts_json) = "true") =>
            \A s \in Addresses, r \in Addresses, a \in MutAmounts, t \in MutTimes :
                <<s, r, a, t>> # <<tx.sender, tx.recipient, tx.amount, tx.timestamp>> =>
                    tx_is_valid([tx EXCEPT !.sender = s, !.recipient = r,
                                           !.amount = a, !.timestamp = t],
                                accounts_json) = "false"

\* validity as the ledger's identity registry decides it: a signature is
\* present, the sender has a public key in public_keys, and the signature
\* verifies against that key over the content hash
registry_valid(tx) ==
    /\ tx.signature # None
    /\ tx.sender \in DOMAIN public_keys
    /\ verify_hex(public_keys[tx.sender], tx_calculate_hash(tx), tx.signature[1])

\* C10: for every transaction of the ledger whose sender is not the sentinel,
\* is_valid returns true iff the identity registry of the ledger says so.
C10_ValidIffRegistry ==
    \A tx \in ledger_txs :
        tx.sender # Sentinel =>
            ((tx_is_valid(tx, accounts_json) = "true") <=> registry_valid(tx))

\* C11 as stated: add_transaction of a transaction whose sender is the sentinel
\* "0" returns the error of signing a genesis transaction and leaves the pool
\* as it was, so that the only transaction from "0" in the ledger is the one of
\* block 0.
C11_SentinelAdmitFails ==
    [][ret'.op = "add_transaction" =>
       \A tx \in TxInputs, k \in Keys :
         (add_transaction(tx, k) /\ tx.sender = Sentinel) =>
             /\ ret' = Ret("add_transaction", GenesisSigningError)
             /\ UNCHANGED pending_transactions]_vars

\* C11 as amended: add_transaction of a transaction whose sender is the
\* sentinel "0" checks no balance and asks for no signature: it returns Ok and
\* appends the transaction, unsigned, at the end of the pool, changing neither
\* chain, accounts nor validators; the error of signing a genesis transaction
\* is what Transaction::sign returns for such a transaction, and add_transaction
\* never returns it.
C11_SentinelAdmitted ==
    [][ret'.op = "add_transaction" =>
       /\ ret'.result # GenesisSigningError
       /\ \A tx \in TxInputs, k \in Keys :
            (add_transaction(tx, k) /\ tx.sender = Sentinel) =>
                /\ tx_sign_error(tx) = GenesisSigningError
                /\ ret' = Ret("add_transaction", Ok)
                /\ pending_transactions' = Append(pending_transactions, tx)
                /\ tx.signature = None
                /\ UNCHANGED <<chain, accounts, validators>>]_vars

\* a transaction from "0" has just been admitted: it sits unsigned at the end of
\* the pool, and block 0 holds another
C11_Witness ==
    /\ ret = Ret("add_transaction", Ok)
    /\ pending_transactions # <<>>
    /\ LET q == pending_transactions[Len(pending_transactions)]
       IN q.sender = Sentinel /\ q.signature = None
    /\ chain[1].transactions[1].sender = Sentinel

\* what the file accounts.json may hold when is_valid runs: nothing (no file),
\* an empty object, what save_to_file writes for the current key pairs, an
\* entry for "0" that is no key pair, an entry for "0" whose key is not hex
IdentityFiles ==
    {NoFile,
     [exists |-> TRUE, data |-> <<>>],
     accounts_file_of(keypairs),
     [exists |-> TRUE, data |-> (Sentinel :> <<"zz">>)],
     [exists |-> TRUE, data |-> (Sentinel :> <<"00", "zz">>)]}

\* C12: every transaction of the pool and of every block whose sender is "0"
\* has no signature, Transaction::sign refuses to give it one, and is_valid
\* returns true for it whatever accounts.json holds (and whatever its signature
\* field were to hold).
C12_SentinelUnsignedValid ==
    \A tx \in ledger_txs :
        tx.sender = Sentinel =>
            /\ tx.signature = None
            /\ tx_sign_error(tx) = GenesisSigningError
            /\ \A file \in IdentityFiles \cup {accounts_json},
                  sig \in {None, Some("00")} :
                   tx_is_valid([tx EXCEPT !.signature = sig], file) = "true"

\* transactions from "0" sit in the pool and in a block after block 0, and key
\* pairs are registered
C12_Witness ==
    /\ \E i \in 1..Len(pending_transactions) :
           pending_transactions[i].sender = Sentinel
    /\ \E i \in 2..Len(chain), j \in 1..2 :
           /\ j <= Len(chain[i].transactions)
           /\ chain[i].transactions[j].sender = Sentinel
    /\ keypairs # <<>>

\* C13: in every reachable state, the states load_from_file produces included,
\* every address whose validator flag is true has a public key in public_keys.
C13_ValidatorsRegistered ==
    \A a \in DOMAIN validators : validators[a] => a \in DOMAIN public_keys

\* C14: a load_from_file that directly follows a save_to_file of the same files
\* succeeds and yields the ledger that was saved: the same chain, pool, balances
\* and validator flags, and for every saved identity the public key in
\* public_keys and the key pair in keypairs under the same address.
C14_SaveLoadRoundTrip ==
    [][(ret.op = "save_to_file" /\ ret'.op = "load_from_file") =>
         /\ ret'.result = Ok
         /\ chain' = chain
         /\ pending_transactions' = pending_transactions
         /\ accounts' = accounts
         /\ validators' = validators
         /\ keypairs' = keypairs
         /\ public_keys' = public_keys]_vars

\* C15: add_validator of an address without a public key in public_keys
\* returns the not-registered error and leaves validators as it was; of an
\* address with a public key it returns Ok and leaves the flag of the address
\* true and every other flag as it was, so that promoting a validator changes
\* nothing; in both cases chain, pool, accounts and key tables are unchanged.
C15_PromoteRegisteredOnly ==
    [][ret'.op = "add_validator" =>
       \A a \in Addresses :
         add_validator(a) =>
             /\ a \notin DOMAIN public_keys =>
                    /\ ret' = Ret("add_validator", NotRegistered)
                    /\ validators' = validators
             /\ a \in DOMAIN public_keys =>
                    /\ ret' = Ret("add_validator", Ok)
                    /\ DOMAIN validators' = DOMAIN validators \cup {a}
                    /\ validators'[a] = TRUE
                    /\ \A b \in DOMAIN validators \ {a} :
                           validators'[b] = validators[b]
                    /\ is_validator(validators, a) => validators' = validators
             /\ UNCHANGED <<chain, pending_transactions, accounts, public_keys,
                            keypairs>>]_vars

\* a promotion has just been refused after another one succeeded
C15_Witness ==
    /\ ret = Ret("add_validator", NotRegistered)
    /\ \E a \in DOMAIN validators : validators[a]
    /\ \E a \in Addresses : a \notin DOMAIN public_keys

\* block 0 as Blockchain::new(S) builds it
genesis_block_of(b, S) ==
    /\ b.index = 0
    /\ b.previous_hash = "0"
    /\ b.validator = S
    /\ b.hash = block_calculate_hash(b)
    /\ Len(b.transactions) = 1
    /\ LET g == b.transactions[1]
       IN /\ g.sender = Sentinel /\ g.recipient = S /\ g.amount = 1000
          /\ g.signature = None

\* C16: right after Blockchain::new(S) the chain is one block with index 0,
\* previous_hash "0" and the single unsigned transaction from "0" to S of
\* amount 1000; accounts holds S alone with balance 1000, the pool is empty and
\* no address is a validator or has a key.  S becomes a validator by a
\* successful add_validator(S) only, and block 0 stays what it was.
C16_Genesis ==
    /\ \E S \in GenesisAddresses :
          /\ ret = Ret("new", Ok)
          /\ Len(chain) = 1
          /\ genesis_block_of(chain[1], S)
          /\ accounts = (S :> 1000)
          /\ pending_transactions = <<>>
          /\ validators = <<>> /\ public_keys = <<>> /\ keypairs = <<>>
          /\ ~is_validator(validators, S)
    /\ [][/\ chain'[1] = chain[1]
          /\ \A S \in GenesisAddresses :
                (~is_validator(validators, S) /\ is_validator(validators', S)) =>
                    /\ ret' = Ret("add_validator", Ok)
                    /\ S \in DOMAIN public_keys
                    /\ add_validator(S)]_vars

\* the seed address has just been promoted, after its key pair was registered;
\* the chain is still the genesis block alone
C16_Witness ==
    /\ ret = Ret("add_validator", Ok)
    /\ Len(chain) = 1
    /\ genesis_block_of(chain[1], chain[1].validator)
    /\ is_validator(validators, chain[1].validator)
    /\ accounts[chain[1].validator] = 1000

\* C17: add_transaction of a transaction whose sender is not "0" succeeds iff
\* its amount is at most the sender's balance in accounts, whatever the pool
\* already debits from that sender; and a successful create_block leaves below
\* zero every address whose pending debits exceed its balance plus its pending
\* credits.
C17_PendingDebitsIgnored ==
    [][/\ ret'.op = "add_transaction" =>
          \A tx \in TxInputs, k \in Keys :
            (add_transaction(tx, k) /\ tx.sender # Sentinel) =>
                /\ (ret'.result = Ok) <=>
                       (tx.amount <= get_account_balance(accounts, tx.sender))
                /\ ret'.result = Ok =>
                       pending_transactions' =
                           Append(pending_transactions, tx_sign(tx, k))
       /\ (ret'.op = "create_block" /\ ret'.result = Ok) =>
          \A a \in Addresses :
            sum_where(pending_transactions, "sender", a)
                > get_account_balance(accounts, a)
                  + sum_where(pending_transactions, "recipient", a)
            => accounts'[a] < 0]_vars

\* a block of two transactions from the same sender has just been committed:
\* each amount was within the sender's balance of 1000, their sum was not, and
\* the sender's balance is now negative
C17_Witness ==
    /\ ret = Ret("create_block", Ok)
    /\ Len(chain) = 2
    /\ LET txs == chain[2].transactions
           S == chain[1].transactions[1].recipient
       IN /\ Len(txs) = 2
          /\ txs[1].sender = S /\ txs[2].sender = S
          /\ txs[1].recipient # S /\ txs[2].recipient # S
          /\ txs[1].amount <= 1000 /\ txs[2].amount <= 1000
          /\ txs[1].amount + txs[2].amount > 1000
          /\ accounts[S] = 1000 - txs[1].amount - txs[2].amount
          /\ accounts[S] < 0

\* C18: a successful add_transaction of a transaction whose sender is not "0"
\* leaves the pool one longer: the transactions already pending keep their
\* places, and the last one is the submitted transaction with the same sender,
\* recipient, amount and timestamp and with the signature of the supplied key
\* pair over its content hash; chain, accounts, validators and the key tables
\* are unchanged.
C18_AdmitAppendsSigned ==
    [][(ret'.op = "add_transaction" /\ ret'.result = Ok) =>
       \A tx \in TxInputs, k \in Keys :
         (add_transaction(tx, k) /\ tx.sender # Sentinel) =>
             /\ Len(pending_transactions') = Len(pending_transactions) + 1
             /\ SubSeq(pending_transactions', 1, Len(pending_transactions))
                    = pending_transactions
             /\ LET q == pending_transactions'[Len(pending_transactions')]
                IN /\ q.sender = tx.sender /\ q.recipient = tx.recipient
                   /\ q.amount = tx.amount /\ q.timestamp = tx.timestamp
                   /\ q.signature # None
                   /\ verify_hex(public_bytes(k), tx_calculate_hash(tx),
                                 q.signature[1])
             /\ UNCHANGED <<chain, accounts, validators, public_keys,
                            keypairs>>]_vars

\* a second signed transaction has just been admitted behind a different one
C18_Witness ==
    /\ ret = Ret("add_transaction", Ok)
    /\ Len(pending_transactions) = 2
    /\ pending_transactions[1] # pending_transactions[2]
    /\ pending_transactions[1].sender # Sentinel
    /\ pending_transactions[2].sender # Sentinel
    /\ pending_transactions[1].signature # None
    /\ pending_transactions[2].signature # None

\* C19: register_keypair of a key pair returns the hex encoding of its public
\* key as the address and leaves, under that address, the public key in
\* public_keys and the key pair in keypairs, every other entry of the two
\* tables as it was; accounts gains the address with balance 0 if it did not
\* hold it and is unchanged if it did; registering a registered key pair
\* returns the address again and changes no table; chain, pool and validators
\* are unchanged.
C19_RegisterIdentity ==
    [][ret'.op = "register_keypair" =>
       \A k \in Keys :
         register_keypair(k) =>
             LET a == hex_encode(public_bytes(k)) IN
             /\ ret'.result = a
             /\ DOMAIN public_keys' = DOMAIN public_keys \cup {a}
             /\ DOMAIN keypairs' = DOMAIN keypairs \cup {a}
             /\ public_keys'[a] = public_bytes(k)
             /\ keypairs'[a] = k
             /\ \A b \in DOMAIN public_keys \ {a} :
                    public_keys'[b] = public_keys[b] /\ keypairs'[b] = keypairs[b]
             /\ DOMAIN accounts' = DOMAIN accounts \cup {a}
             /\ \A b \in DOMAIN accounts : accounts'[b] = accounts[b]
             /\ a \notin DOMAIN accounts => accounts'[a] = 0
             /\ a \in DOMAIN public_keys =>
                    /\ public_keys' = public_keys
                    /\ keypairs' = keypairs
                    /\ accounts' = accounts
             /\ UNCHANGED <<chain, pending_transactions, validators>>]_vars

\* the seed address has just been registered and keeps its balance of 1000,
\* next to an address that registration created with balance 0
C19_Witness ==
    /\ ret = Ret("register_keypair", chain[1].validator)
    /\ accounts[chain[1].validator] = 1000
    /\ \E b \in DOMAIN public_keys :
           b # chain[1].validator /\ accounts[b] = 0

\* identity files with a stored key that is not hex, for each address
MalformedKeyFiles ==
    {[exists |-> TRUE, data |-> (a :> <<"00", "zz">>)] : a \in Addresses}

\* C20: is_valid of every transaction of the ledger, and validate_chain,
\* return true or false: with accounts.json as it is (missing, perhaps), and
\* with an accounts.json that holds a malformed key.
C20_PredicatesNeverPanic ==
    /\ chain_valid \in {"true", "false"}
    /\ \A tx \in ledger_txs, file \in {accounts_json} \cup MalformedKeyFiles :
           tx_is_valid(tx, file) \in {"true", "false"}

\* C21: every step of register_keypair, add_validator, add_transaction and
\* create_block leaves the chain at least as long as it was, with every block
\* it held at the same position and with the same fields; the chain changes
\* only in a create_block that returns Ok, which adds one block at the end.
C21_ChainAppendOnly ==
    [][/\ Len(chain') >= Len(chain)
       /\ SubSeq(chain', 1, Len(chain)) = chain
       /\ chain' # chain =>
              /\ ret' = Ret("create_block", Ok)
              /\ Len(chain') = Len(chain) + 1
       /\ ret' = Ret("create_block", Ok) => Len(chain') = Len(chain) + 1]_vars

\* two blocks were committed, and operations other than commit followed: the
\* chain still has its three blocks
C21_Witness ==
    /\ Len(chain) = 3
    /\ ret.op \in {"register_keypair", "add_validator"}
    /\ chain[1].index = 0 /\ chain[2].index = 1 /\ chain[3].index = 2

\* C22: every block at position i >= 1 has index i, a stored hash equal to the
\* hash recomputed from its index, timestamp, transactions, previous_hash and
\* validator, and a previous_hash equal to the stored hash of block i - 1.
C22_BlocksWellFormed ==
    \A i \in 2..Len(chain) :
        /\ chain[i].index = i - 1
        /\ chain[i].hash = block_calculate_hash(chain[i])
        /\ chain[i].previous_hash = chain[i - 1].hash

\* a chain of three blocks by two different validators
C22_Witness ==
    /\ Len(chain) = 3
    /\ chain[2].validator # chain[3].validator
    /\ chain[3].previous_hash = chain[2].hash
    /\ chain[2].previous_hash = chain[1].hash

\* the sum of the balances of a table of accounts
RECURSIVE total_balance(_)
total_balance(accts) ==
    IF DOMAIN accts = {} THEN 0
    ELSE LET a == CHOOSE x \in DOMAIN accts : TRUE
         IN accts[a] + total_balance([x \in DOMAIN accts \ {a} |-> accts[x]])

\* C26: a create_block that returns Ok changes the sum of all balances by the
\* sum of the amounts of the pool's transactions whose sender is "0"; every
\* other step (register_keypair, add_validator, add_transaction, a create_block
\* that returns an error) leaves the sum as it was.
C26_ValueConserved ==
    [][IF ret' = Ret("create_block", Ok)
       THEN total_balance(accounts') =
                total_balance(accounts)
                + sum_where(pending_transactions, "sender", Sentinel)
       ELSE total_balance(accounts') = total_balance(accounts)]_vars

\* a block with a transaction from "0" of 300 and a transfer between two
\* addresses has just been committed: the balances sum to 1300
C26_Witness ==
    /\ ret = Ret("create_block", Ok)
    /\ Len(chain) = 2
    /\ Len(chain[2].transactions) = 2
    /\ \E i, j \in 1..2 :
          /\ chain[2].transactions[i].sender = Sentinel
          /\ chain[2].transactions[i].amount = 300
          /\ chain[2].transactions[j].sender # Sentinel
          /\ chain[2].transactions[j].recipient # chain[2].transactions[j].sender
    /\ total_balance(accounts) = 1300

\* C25: every transaction of the pool and of every block has an amount that is
\* not negative.
C25_AmountsNonNegative == \A tx \in ledger_txs : tx.amount >= 0

\* the selected account exists and its validator flag is true
caller_is_validator ==
    /\ cli.current_user # None
    /\ is_validator(validators, cli.current_user[1])

\* C23: promote_to_validator with no account selected returns the
\* no-account-selected error, with a selected account that is not a validator
\* it returns the only-validators error, and in both cases validators is left
\* as it was; validators changes in a promotion only when the caller is a
\* validator, and then the outcome is the one of add_validator, which depends
\* on the registration of the promoted address alone.
C23_PromotionNeedsValidator ==
    [][ret'.op = "promote_to_validator" =>
         /\ cli.current_user = None =>
                /\ ret'.result = NoAccountSelected
                /\ validators' = validators
         /\ (cli.current_user # None /\ ~caller_is_validator) =>
                /\ ret'.result = OnlyValidatorsPromote
                /\ validators' = validators
         /\ validators' # validators => caller_is_validator
         /\ caller_is_validator =>
                \E a \in DOMAIN keypairs :
                    IF a \in DOMAIN public_keys
                    THEN /\ ret'.result = Ok
                         /\ validators' = (a :> TRUE) @@ validators
                    ELSE /\ ret'.result = NotRegistered
                         /\ validators' = validators]_vars

\* a selected account that is not a validator has just been refused a
\* promotion, with a validator and a registered account in the ledger
C23_Witness ==
    /\ ret = Ret("promote_to_validator", OnlyValidatorsPromote)
    /\ cli.current_user # None
    /\ ~caller_is_validator
    /\ cli.current_user[1] \in DOMAIN public_keys
    /\ \E a \in DOMAIN validators : validators[a]

\* C24: when the load at startup fails, the process does not go on to run the
\* interaction loop.
C24_LoadFailureFatal ==
    (ret.op = "BlockchainCLI::new" /\ ret.result \in LoadErrors) => ~cli.running

\* C27: in every step of a run of the program, an address that is a validator
\* before the step is a validator after it.
C27_ValidatorsOnlyGrow ==
    [][ret'.op # "BlockchainCLI::new" =>
         \A a \in Addresses :
             is_validator(validators, a) => is_validator(validators', a)]_vars

\* a block has just been made in a run that has two validators
C27_Witness ==
    /\ ret = Ret("create_new_block", Ok)
    /\ cli.running
    /\ \E a, b \in Addresses :
           a # b /\ is_validator(validators, a) /\ is_validator(validators, b)

====
